---- MODULE Spec2Model ----
(***************************************************************************)
(* A model of the extraction-and-pagination core of github-scraper:        *)
(*   - the unknown-size page counter   (src/src/gitlab/repoCount.ts)       *)
(*   - the streaming rule engine       (src/src/common/htmlparser.ts)      *)
(*   - the page-walking crawlers       (src/src/github/issues.ts,          *)
(*                                      src/src/github/dependents.ts)      *)
(*   - the concurrent listings        (src/src/github/repos.ts,           *)
(*                                      src/src/gitlab/repos.ts,           *)
(*                                      src/src/git/refs.ts)               *)
(* Each component has its own specification (SpecCount, SpecParse,         *)
(* SpecIssues, SpecDependents, SpecTransform, SpecRepos, SpecRefs) over    *)
(* the shared variables; the variables a component does not use keep       *)
(* their initial value.                                                    *)
(***************************************************************************)
EXTENDS Integers, Sequences, FiniteSets, TLC

VARIABLES
    \* ---- page counter (GetGitlabRepoCount.handle) ----
    c_pc,                \* position of handle: "idle", "grow", "search", "done", "error"
    items,               \* the server's (stable) collection size
    zeroPage,            \* how the server answers page=0: "first" (as page 1) or "empty"
    estimate,            \* the request's estimate parameter
    estimatePageCount,   \* repoCount.ts:44
    low, high, mid,      \* repoCount.ts:63-65
    lastFetchNumRepos,   \* repoCount.ts:66
    c_ret,               \* the value handle returned, or NoResult
    probes,              \* the page numbers requested so far, in order
    probeFailed,         \* whether some probe's HTTP exchange failed
    \* ---- streaming rule engine (HTMLParser) ----
    p_pc,                \* "idle", "streaming", "returned", "error"
    parser,              \* which rule registry the HTMLParser instance holds
    key,                 \* HTMLParser.key
    res,                 \* HTMLParser.res
    text,                \* the text accumulator of each text rule (closure variable)
    open,                \* the document: the elements started and not yet ended
    inText,              \* the document: a text node has begun and not yet ended
    nEvents,             \* the document: number of tokens streamed so far
    startKey,            \* history: HTMLParser.key right after each open element's start
    filed,               \* history: the values filed by the latest token
    calls,               \* history: HTMLParser.key and .res at the start of each parse call
    p_ret,               \* what parse returned, or NoResult
    \* ---- page-walking crawlers (GetIssues.handle, GetDependents.handle) ----
    h_pc,                \* "idle", "first", "next", "done", "error"
    maxPages,            \* params.maxPages
    pageCount,           \* issues.ts:224, dependents.ts:161
    page_res,            \* the variable res of handle: the page parsed last
    full_res,            \* the accumulator
    reqURL,              \* the URL of the request in flight
    fetched,             \* the URLs handed to fetchURL so far, in order
    merged,              \* history: the parsed pages merged so far, in order
    h_ret,               \* the payload handle returned, or NoResult
    \* ---- one application of a transform (fieldMap and its callbacks) ----
    t_pc,                \* "off", "ready", then which function has been applied
    t_in,                \* the argument
    t_out,               \* the value returned
    \* ---- repository listing (GetGithubRepos.handle, GetGitlabRepos.handle) ----
    r_pc,                \* "off", "idle", "waiting", "done", "error"
    r_host,              \* "github" or "gitlab": which handler runs
    r_pages,             \* the promises, in the order they were pushed: what each
                         \* fetch has resolved with, or that it is pending
    r_order,             \* history: the promises in the order they resolved
    r_ret,               \* the array handle returned, or NoResult
    \* ---- remote refs of several repositories (GetGitRefs.handle) ----
    g_pc,                \* "off", "idle", "waiting", "done"
    gitUrls,             \* the request's url parameter
    results,             \* the promises, in the order of gitUrls: the object each
                         \* has resolved with, or that it is pending
    g_ret                \* the object handle returned, or NoResult

countVars == <<c_pc, items, zeroPage, estimate, estimatePageCount, low, high, mid,
               lastFetchNumRepos, c_ret, probes, probeFailed>>

parseVars == <<p_pc, parser, key, res, text, open, inText, nEvents, startKey, filed,
              calls, p_ret>>

crawlVars == <<h_pc, maxPages, pageCount, page_res, full_res, reqURL, fetched, merged, h_ret>>

transformVars == <<t_pc, t_in, t_out>>

reposVars == <<r_pc, r_host, r_pages, r_order, r_ret>>

refsVars == <<g_pc, gitUrls, results, g_ret>>

vars == <<countVars, parseVars, crawlVars, transformVars, reposVars, refsVars>>

NoResult == [none |-> TRUE]

Min(a, b) == IF a < b THEN a ELSE b
Max(a, b) == IF a > b THEN a ELSE b

(***************************************************************************)
(*                          THE PAGE COUNTER                               *)
(***************************************************************************)

\* perPage: 100 in every probe, and the literal 100 the lengths are compared with
PageSize == 100

\* bounds of the counter's inputs
MaxFullPages == 4
MaxEstimatePages == 9
\* the model stops following a run after this many probes (the code has no cap:
\* with estimate 0 and a server that answers page 0 with a full page, phase 1
\* probes page 0 forever)
MaxProbes == 12

Remainders == {0, 1, 50, 99}
ItemCounts == {PageSize * q + r : q \in 0..MaxFullPages, r \in Remainders}
Estimates == {e \in {PageSize * j - r : j \in 0..MaxEstimatePages, r \in {0, 50}} : e >= 0}

\* The server: the number of projects on page p of a stable collection of n items.
\* GitLab answers pages past the end with an empty array.
ServerPageLength(n, zp, p) ==
    IF p = 0 THEN (IF zp = "first" THEN Min(PageSize, n) ELSE 0)
    ELSE Min(PageSize, Max(0, n - (p - 1) * PageSize))

\* Math.ceil(estimate / 100) for a non-negative integer estimate
MathCeilDiv(a, b) == (a + b - 1) \div b

\* Math.floor((low + high) / 2); \div rounds toward minus infinity as Math.floor does
MathFloorHalf(a, b) == (a + b) \div 2

\* What one HTTP exchange of a probe can be:
\*   "ok"         status 200, a JSON array holding the page
\*   "reject"     fetch() rejects (network error)
\*   "notJSON"    a non-200 status whose body is not JSON: response.json() throws
\*   "jsonObject" a non-200 status whose body is a JSON object such as
\*                {"message": "..."}: data.map is not a function, a TypeError
\*   "jsonArray"  a non-200 status whose body is a JSON array
ProbeOutcomes == {"ok", "reject", "notJSON", "jsonObject", "jsonArray"}
\* lengths of the array a failed exchange may carry
ErrorArrayLengths == {0}

\* fetchGitlabReposPage: no status check; the result is data.map(...) of whatever
\* array the body parses to. [threw, length].
fetchGitlabReposPage(page, outcome, errLen) ==
    CASE outcome = "ok"        -> [threw |-> FALSE, length |-> ServerPageLength(items, zeroPage, page)]
      [] outcome = "jsonArray" -> [threw |-> FALSE, length |-> errLen]
      [] OTHER                 -> [threw |-> TRUE, length |-> 0]

CountResult(m, last) == [total_pages |-> m, total |-> (m - 1) * PageSize + last]

CountInit ==
    /\ c_pc = "idle"
    /\ items \in ItemCounts
    /\ zeroPage \in {"first", "empty"}
    /\ estimate = 0
    /\ estimatePageCount = 0
    /\ low = 0 /\ high = 0 /\ mid = 0
    /\ lastFetchNumRepos = 0
    /\ c_ret = NoResult
    /\ probes = <<>>
    /\ probeFailed = FALSE

\* handle up to its first await: repoCount.ts:38-48
CountStart ==
    /\ c_pc = "idle"
    /\ \E e \in Estimates :
         /\ estimate' = e
         /\ estimatePageCount' = MathCeilDiv(e, PageSize)
    /\ c_pc' = "grow"
    /\ UNCHANGED <<items, zeroPage, low, high, mid, lastFetchNumRepos, c_ret, probes,
                   probeFailed>>
    /\ UNCHANGED <<parseVars, crawlVars, transformVars, reposVars, refsVars>>
\* the state handle is in when the loop at repoCount.ts:68 is entered or re-entered
\* with the given low, high, mid and lastFetchNumRepos
SearchContinue(l, h, m, last) ==
    /\ low' = l /\ high' = h /\ mid' = m /\ lastFetchNumRepos' = last
    /\ IF l < h
         THEN c_pc' = "search" /\ c_ret' = c_ret
         ELSE c_pc' = "done" /\ c_ret' = CountResult(m, last)

\* one probe of phase 1 and what follows it up to the next await: repoCount.ts:47-68
CountGrow ==
    /\ c_pc = "grow"
    /\ Len(probes) < MaxProbes
    /\ \E outcome \in ProbeOutcomes, errLen \in ErrorArrayLengths :
         LET repos == fetchGitlabReposPage(estimatePageCount, outcome, errLen) IN
         /\ probes' = Append(probes, estimatePageCount)
         /\ probeFailed' = (probeFailed \/ outcome # "ok")
         /\ IF repos.threw
              THEN /\ c_pc' = "error"
                   /\ UNCHANGED <<estimatePageCount, low, high, mid, lastFetchNumRepos, c_ret>>
              ELSE IF repos.length = PageSize
                THEN /\ estimatePageCount' = estimatePageCount * 2
                     /\ UNCHANGED <<c_pc, low, high, mid, lastFetchNumRepos, c_ret>>
                ELSE /\ UNCHANGED estimatePageCount
                     /\ SearchContinue(1, estimatePageCount,
                                       MathFloorHalf(1, estimatePageCount), PageSize)
    /\ UNCHANGED <<items, zeroPage, estimate>>
    /\ UNCHANGED <<parseVars, crawlVars, transformVars, reposVars, refsVars>>
\* one probe of phase 2 and what follows it up to the next await: repoCount.ts:68-94
CountSearch ==
    /\ c_pc = "search"
    /\ Len(probes) < MaxProbes
    /\ \E outcome \in ProbeOutcomes, errLen \in ErrorArrayLengths :
         LET repos == fetchGitlabReposPage(mid, outcome, errLen) IN
         /\ probes' = Append(probes, mid)
         /\ probeFailed' = (probeFailed \/ outcome # "ok")
         /\ IF repos.threw
              THEN /\ c_pc' = "error"
                   /\ UNCHANGED <<low, high, mid, lastFetchNumRepos, c_ret>>
              ELSE IF repos.length = PageSize
                THEN SearchContinue(mid + 1, high, MathFloorHalf(mid + 1, high), repos.length)
              ELSE IF repos.length = 0
                THEN SearchContinue(low, mid - 1, MathFloorHalf(low, mid - 1), repos.length)
              ELSE /\ c_pc' = "done"
                   /\ c_ret' = CountResult(mid, repos.length)
                   /\ lastFetchNumRepos' = repos.length
                   /\ UNCHANGED <<low, high, mid>>
    /\ UNCHANGED <<items, zeroPage, estimate, estimatePageCount>>
    /\ UNCHANGED <<parseVars, crawlVars, transformVars, reposVars, refsVars>>
CountNext == CountStart \/ CountGrow \/ CountSearch

(***************************************************************************)
(*                            JS VALUES                                    *)
(* A JS string is a tuple of tokens; a token is one character, or a run of *)
(* characters that no operation of the program ever splits.  The property  *)
(* names of parser.res (the keys) are JS strings; field names are fixed    *)
(* identifiers and are written as TLA+ strings.                            *)
(***************************************************************************)

EmptyObj == <<>>

\* obj[k] = v
Put(obj, k, v) == [x \in (DOMAIN obj) \cup {k} |-> IF x = k THEN v ELSE obj[x]]

Digits == <<"0", "1", "2", "3", "4", "5", "6", "7", "8", "9">>
IsDigit(c) == \E i \in 1..10 : Digits[i] = c
DigitValue(c) == (CHOOSE i \in 1..10 : Digits[i] = c) - 1
IsSpace(c) == c \in {" ", "\n"}

\* String(n) for an integer n >= 0
RECURSIVE NumToStr(_)
NumToStr(n) == IF n < 10 THEN <<Digits[n + 1]>>
               ELSE NumToStr(n \div 10) \o <<Digits[(n % 10) + 1]>>

\* NaN; the modelled documents hold no minus sign, so no parseInt result is negative
NaN == -1

RECURSIVE SkipSpaces(_)
SkipSpaces(s) == IF s # <<>> /\ IsSpace(Head(s)) THEN SkipSpaces(Tail(s)) ELSE s

RECURSIVE LeadingDigits(_, _)
LeadingDigits(s, acc) ==
    IF s # <<>> /\ IsDigit(Head(s))
      THEN LeadingDigits(Tail(s), acc * 10 + DigitValue(Head(s)))
      ELSE acc

\* parseInt(s): skips leading white space, reads the leading digits, NaN if none
ParseInt(s) ==
    LET t == SkipSpaces(s) IN
    IF t # <<>> /\ IsDigit(Head(t)) THEN LeadingDigits(t, 0) ELSE NaN

\* s.match(/(\d+)/g): the maximal digit runs of s in order (<<>> stands for null)
RECURSIVE DigitGroups(_, _, _)
DigitGroups(s, cur, acc) ==
    IF s = <<>> THEN (IF cur = <<>> THEN acc ELSE Append(acc, cur))
    ELSE IF IsDigit(Head(s)) THEN DigitGroups(Tail(s), Append(cur, Head(s)), acc)
    ELSE DigitGroups(Tail(s), <<>>, IF cur = <<>> THEN acc ELSE Append(acc, cur))

\* v.join('')
RECURSIVE Join(_)
Join(v) == IF v = <<>> THEN <<>> ELSE Head(v) \o Join(Tail(v))

RECURSIVE DropTrailingSpaces(_)
DropTrailingSpaces(s) ==
    IF s # <<>> /\ IsSpace(s[Len(s)]) THEN DropTrailingSpaces(SubSeq(s, 1, Len(s) - 1)) ELSE s

\* s.trim()
Trim(s) == DropTrailingSpaces(SkipSpaces(s))

\* s.replace(c, ''): a string pattern removes the first occurrence only
RECURSIVE RemoveFirst(_, _)
RemoveFirst(s, c) ==
    IF s = <<>> THEN <<>>
    ELSE IF Head(s) = c THEN Tail(s)
    ELSE <<Head(s)>> \o RemoveFirst(Tail(s), c)

\* decode of html-entities, for the one entity the modelled documents hold: &lt;
LtEntity == <<"&", "l", "t", ";">>
RECURSIVE decode(_)
decode(s) ==
    IF s = <<>> THEN <<>>
    ELSE IF Len(s) >= 4 /\ SubSeq(s, 1, 4) = LtEntity THEN <<"<">> \o decode(SubSeq(s, 5, Len(s)))
    ELSE <<Head(s)>> \o decode(Tail(s))

\* decodeURIComponent(x): String(x) with its escapes decoded; null becomes "null";
\* a malformed escape throws URIError. x is [isNull, val]. The modelled documents
\* hold the escape %2F and the malformed escape %ZZ, each as one token.
RECURSIVE DecodeEscapes(_)
DecodeEscapes(s) ==
    IF s = <<>> THEN <<>>
    ELSE (IF Head(s) = "%2F" THEN <<"/">> ELSE <<Head(s)>>) \o DecodeEscapes(Tail(s))
decodeURIComponent(x) ==
    IF x.isNull THEN [threw |-> FALSE, val |-> <<"null">>]
    ELSE IF \E i \in 1..Len(x.val) : x.val[i] = "%ZZ" THEN [threw |-> TRUE, val |-> <<>>]
    ELSE [threw |-> FALSE, val |-> DecodeEscapes(x.val)]

(***************************************************************************)
(*                      THE STREAMING RULE ENGINE                          *)
(* parser.key is a JS value that is a string or a number:                  *)
(*   [isNum |-> FALSE, str |-> s, num |-> 0]  or                           *)
(*   [isNum |-> TRUE,  str |-> <<>>, num |-> n].                           *)
(* A rule is one handler registration rewriter.on(selector, ...):          *)
(*   [kind, sel, name, attr, override, value, fn]                          *)
(* with override = <<>> when no overrideKey was given (the code tests      *)
(* overrideKey for truthiness, so '' counts as none).                      *)
(* An element is [sels, attrs]: the registered selectors it matches and    *)
(* its attributes.  A text chunk is [within, text, last]: the selectors of *)
(* the open elements it lies in, element.text and element.lastInTextNode.  *)
(* The state of one parser is ps = [key, res, text, threw, filed]; filed   *)
(* logs the pushes made while one token is dispatched.                     *)
(***************************************************************************)

KeyIsNull == <<"$keyIsNull">>
PaginationKey == <<"pagination">>

StrKey(s) == [isNum |-> FALSE, str |-> s, num |-> 0]
NumKey(n) == [isNum |-> TRUE, str |-> <<>>, num |-> n]

\* key = '$keyIsNull'; res = {}   (htmlparser.ts:10-11 and 116-117)
InitialKey == StrKey(KeyIsNull)

\* the property name parser.res[key] uses for a key
PropName(k) == IF k.isNum THEN NumToStr(k.num) ELSE k.str

KeyRule(sel, fn) ==
    [kind |-> "key", sel |-> sel, name |-> "", attr |-> "", override |-> <<>>,
     value |-> <<>>, fn |-> fn]
AttributeRule(name, sel, attr, override) ==
    [kind |-> "attr", sel |-> sel, name |-> name, attr |-> attr, override |-> override,
     value |-> <<>>, fn |-> ""]
TextRule(name, sel, override) ==
    [kind |-> "text", sel |-> sel, name |-> name, attr |-> "", override |-> override,
     value |-> <<>>, fn |-> ""]
CaseRule(name, sel, value, override) ==
    [kind |-> "case", sel |-> sel, name |-> name, attr |-> "", override |-> override,
     value |-> value, fn |-> ""]

\* element.getAttribute(a)
getAttribute(el, a) ==
    IF a \in DOMAIN el.attrs THEN [isNull |-> FALSE, val |-> el.attrs[a]]
    ELSE [isNull |-> TRUE, val |-> <<>>]

\* the transform_fn of parseIssues (issues.ts:87-95) and of parseDependents and
\* parseTimeline (dependents.ts:40-42, timeline.ts:141-146): [threw, key]
KeyTransform(fn, el, k) ==
    IF fn = "issueId"
      THEN LET id == getAttribute(el, "id")
               matches == DigitGroups(id.val, <<>>, <<>>) IN
           IF id.isNull THEN [threw |-> TRUE, key |-> k]
           ELSE IF matches = <<>> THEN [threw |-> FALSE, key |-> k]
           ELSE [threw |-> FALSE, key |-> StrKey(matches[Len(matches)])]
      ELSE [threw |-> FALSE, key |-> IF ~k.isNum THEN NumKey(0) ELSE NumKey(k.num + 1)]

\* key in parser.res || (parser.res[key] = {});
\* name in parser.res[key] || (parser.res[key][name] = []);
\* parser.res[key][name].push(val)
Push(r, k, name, val) ==
    LET item == IF k \in DOMAIN r THEN r[k] ELSE EmptyObj
        list == IF name \in DOMAIN item THEN item[name] ELSE <<>>
    IN Put(r, k, Put(item, name, Append(list, val)))

\* const key = overrideKey ? overrideKey : parser.key
TargetKey(rule, k) == IF rule.override # <<>> THEN rule.override ELSE PropName(k)

Filing(i, k) == [rule |-> i, key |-> k]

\* the element(element) handler of rule i
ElementHandler(rules, i, ps, el) ==
    LET rule == rules[i] IN
    CASE rule.kind = "key" ->
           LET t == KeyTransform(rule.fn, el, ps.key) IN
           IF t.threw THEN [ps EXCEPT !.threw = TRUE] ELSE [ps EXCEPT !.key = t.key]
      [] rule.kind = "attr" ->
           \* lines 47-48 have run when the argument of push throws: res[key] and
           \* res[key][name] exist, the list possibly without a value
           LET d == decodeURIComponent(getAttribute(el, rule.attr))
               k == TargetKey(rule, ps.key)
               item == IF k \in DOMAIN ps.res THEN ps.res[k] ELSE EmptyObj
               list == IF rule.name \in DOMAIN item THEN item[rule.name] ELSE <<>> IN
           IF d.threw THEN [ps EXCEPT !.threw = TRUE,
                                      !.res = Put(ps.res, k, Put(item, rule.name, list))]
           ELSE [ps EXCEPT !.res = Push(ps.res, k, rule.name, d.val),
                           !.filed = @ \cup {Filing(i, k)}]
      [] rule.kind = "text" -> [ps EXCEPT !.text[i] = <<>>]
      [] rule.kind = "case" ->
           LET k == TargetKey(rule, ps.key) IN
           [ps EXCEPT !.res = Push(ps.res, k, rule.name, rule.value),
                      !.filed = @ \cup {Filing(i, k)}]

\* a text handler that decodes every chunk as it arrives
TextHandlerDecodeChunks(rules, i, ps, chunk) ==
    LET rule == rules[i]
        t == ps.text[i] \o decode(chunk.text)
        k == TargetKey(rule, ps.key) IN
    IF chunk.last
      THEN [ps EXCEPT !.res = Push(ps.res, k, rule.name, t),
                      !.text[i] = <<>>,
                      !.filed = @ \cup {Filing(i, k)}]
      ELSE [ps EXCEPT !.text[i] = t]

\* the text(element) handler of text rule i
TextHandler(rules, i, ps, chunk) ==
    LET rule == rules[i]
        t == ps.text[i] \o chunk.text
        k == TargetKey(rule, ps.key) IN
    IF chunk.last
      THEN [ps EXCEPT !.res = Push(ps.res, k, rule.name, decode(t)),
                      !.text[i] = <<>>,
                      !.filed = @ \cup {Filing(i, k)}]
      ELSE [ps EXCEPT !.text[i] = t]

\* HTMLRewriter: an element start runs the element handlers of every rule whose
\* selector matches, in registration order; a throwing handler aborts the stream
RECURSIVE DispatchElement(_, _, _, _)
DispatchElement(rules, i, ps, el) ==
    IF i > Len(rules) \/ ps.threw THEN ps
    ELSE DispatchElement(rules, i + 1,
                         IF rules[i].sel \in el.sels THEN ElementHandler(rules, i, ps, el) ELSE ps,
                         el)

\* HTMLRewriter: a text chunk runs the text handlers of every rule one of whose
\* matched elements encloses the chunk, in registration order
RECURSIVE DispatchText(_, _, _, _)
DispatchText(rules, i, ps, chunk) ==
    IF i > Len(rules) THEN ps
    ELSE DispatchText(rules, i + 1,
                      IF rules[i].kind = "text" /\ rules[i].sel \in chunk.within
                        THEN TextHandler(rules, i, ps, chunk) ELSE ps,
                      chunk)

\* a fresh HTMLParser with its rules registered: let text = '' in each addTextParser
NewParser(rules) ==
    [key |-> InitialKey, res |-> EmptyObj, text |-> [i \in 1..Len(rules) |-> <<>>],
     threw |-> FALSE, filed |-> {}]

(***************************************************************************)
(*                        THE RULE REGISTRIES                              *)
(***************************************************************************)

SelIssueRow == ".js-issue-row"
SelTitle == ".markdown-title"
SelAuthor == ".opened-by [data-hovercard-type=\"user\"]"
SelBot == ".opened-by a[href]:not([data-hovercard-type=\"user\"])"
SelRelativeTime == "relative-time"
SelCheckDanger == ".color-fg-danger[aria-label*=\"heck\"]"
SelCheckSuccess == ".color-fg-success[aria-label*=\"heck\"]"
SelOpen == "[aria-label~=\"Open\"]"
SelClosed == "[aria-label~=\"Closed\"]"
SelMerged == "[aria-label~=\"Merged\"]"
SelIssueLabel == "a.IssueLabel"
SelRelNext == "a[rel=\"next\"]"
SelPage == "a[aria-label^=\"Page\"]"
SelCurrentPage == "a[aria-current=\"page\"]"

\* the registrations of parseIssues, in order (issues.ts:87-141)
IssuesRules == <<
    KeyRule(SelIssueRow, "issueId"),
    TextRule("title", SelTitle, <<>>),
    TextRule("author", SelAuthor, <<>>),
    TextRule("bot", SelBot, <<>>),
    AttributeRule("actedAt", SelRelativeTime, "datetime", <<>>),
    AttributeRule("check", SelCheckDanger, "aria-label", <<>>),
    AttributeRule("check", SelCheckSuccess, "aria-label", <<>>),
    CaseRule("checkStatus", SelCheckDanger, <<"failed">>, <<>>),
    CaseRule("checkStatus", SelCheckSuccess, <<"passed">>, <<>>),
    CaseRule("state", SelOpen, <<"open">>, <<>>),
    CaseRule("state", SelClosed, <<"closed">>, <<>>),
    CaseRule("state", SelMerged, <<"merged">>, <<>>),
    TextRule("labels", SelIssueLabel, <<>>),
    AttributeRule("next", SelRelNext, "href", PaginationKey),
    TextRule("total", SelPage, PaginationKey),
    TextRule("current", SelCurrentPage, PaginationKey) >>

SelBoxRow == "div.Box-row"
SelUser == ".Box-row [data-hovercard-type=\"user\"]"
SelOrganization == ".Box-row [data-hovercard-type=\"organization\"]"
SelRepository == ".Box-row [data-hovercard-type=\"repository\"]"
SelPackageSpan == ".Box-row > span:not([data-repository-hovercards-enabled])"
SelPackageSmall == ".Box-row > span[data-repository-hovercards-enabled] > small"
SelStars == ".Box-row .flex-justify-end > span:nth-of-type(1)"
SelForks == ".Box-row .flex-justify-end > span:nth-of-type(2)"
SelPaginate == ".paginate-container a[href]"

\* the registrations of parseDependents, in order (dependents.ts:40-75)
DependentsRules == <<
    KeyRule(SelBoxRow, "ordinal"),
    TextRule("owner", SelUser, <<>>),
    TextRule("owner", SelOrganization, <<>>),
    TextRule("name", SelRepository, <<>>),
    TextRule("package", SelPackageSpan, <<>>),
    TextRule("package", SelPackageSmall, <<>>),
    TextRule("stars", SelStars, <<>>),
    TextRule("forks", SelForks, <<>>),
    AttributeRule("next", SelPaginate, "href", PaginationKey) >>

RulesOf(p) == IF p = "issues" THEN IssuesRules ELSE DependentsRules

Element(sels, attrs) == [sels |-> sels, attrs |-> attrs]
NoAttrs == EmptyObj
Attr(a, v) == [x \in {a} |-> v]

(***************************************************************************)
(*          ONE PARSE, TOKEN BY TOKEN   (HTMLParser.parse)                 *)
(* The document is produced by the environment one token at a time: an     *)
(* element start, a chunk of a text node, or an element end.  A text node  *)
(* is a run of chunks that ends with the chunk whose lastInTextNode is     *)
(* true; tags come only between text nodes.                                *)
(***************************************************************************)

\* bounds of the streamed documents: the tokens one HTMLParser instance sees over
\* all its parse calls, the nesting depth, and the number of parse calls
MaxEvents == 5
MaxDepth == 2
MaxParses == 2

\* the elements the streamed documents are made of
IssueElements == {
    Element({SelIssueRow}, Attr("id", <<"issue_", "1">>)),
    Element({SelIssueRow}, Attr("id", <<"issue_", "2">>)),
    Element({SelIssueRow}, NoAttrs),
    Element({SelIssueRow}, Attr("id", <<"issue_">>)),
    Element({SelIssueRow, SelOpen}, Attr("id", <<"issue_", "2">>)),
    Element({SelIssueRow, SelIssueLabel}, Attr("id", <<"issue_", "1">>)),
    Element({SelTitle}, NoAttrs),
    Element({SelRelativeTime}, Attr("datetime", <<"T">>)),
    Element({SelCheckSuccess}, Attr("aria-label", <<"%ZZ">>)) }
DependentElements == {
    Element({SelBoxRow}, NoAttrs),
    Element({SelRepository}, NoAttrs),
    Element({SelPaginate}, Attr("href", <<"/dependents?", "dependents_after=", "c">>)) }
ElementsOf(p) == IF p = "issues" THEN IssueElements ELSE DependentElements

TextChunks == { [text |-> <<"a">>, last |-> FALSE],
                [text |-> <<"a">>, last |-> TRUE],
                [text |-> <<>>, last |-> TRUE] }

ParserState == [key |-> key, res |-> res, text |-> text, threw |-> FALSE, filed |-> {}]

\* the selectors of the open elements: the rules whose text handler a chunk reaches
Within(stack) == UNION {stack[j].sels : j \in 1..Len(stack)}

\* the innermost open element that rule i matched
MatchedElement(rules, i, stack) ==
    CHOOSE j \in 1..Len(stack) :
        /\ rules[i].sel \in stack[j].sels
        /\ \A j2 \in (j + 1)..Len(stack) : rules[i].sel \notin stack[j2].sels

ParseIdle ==
    /\ p_pc = "idle"
    /\ parser = "none"
    /\ key = InitialKey
    /\ res = EmptyObj
    /\ text = <<>>
    /\ open = <<>>
    /\ inText = FALSE
    /\ nEvents = 0
    /\ startKey = <<>>
    /\ filed = {}
    /\ calls = <<>>
    /\ p_ret = NoResult

\* new HTMLParser() with its rules added: htmlparser.ts:7-11, 63-65
ParseInit ==
    /\ p_pc = "idle"
    /\ parser \in {"issues", "dependents"}
    /\ key = InitialKey
    /\ res = EmptyObj
    /\ text = [i \in 1..Len(RulesOf(parser)) |-> <<>>]
    /\ open = <<>>
    /\ inText = FALSE
    /\ nEvents = 0
    /\ startKey = <<>>
    /\ filed = {}
    /\ calls = <<>>
    /\ p_ret = NoResult

\* parse(response) is called on the instance, for the first time or after an
\* earlier call has returned or has rejected: htmlparser.ts:112-113.  The rewriter
\* starts on a new document; key, res and the text accumulators are what the
\* earlier call left.
ParseBegin ==
    /\ p_pc \in {"idle", "returned", "error"}
    /\ Len(calls) < MaxParses
    /\ p_pc' = "streaming"
    /\ calls' = Append(calls, [key |-> key, res |-> res])
    /\ open' = <<>>
    /\ inText' = FALSE
    /\ startKey' = <<>>
    /\ filed' = {}
    /\ p_ret' = NoResult
    /\ UNCHANGED <<parser, key, res, text, nEvents>>
    /\ UNCHANGED <<countVars, crawlVars, transformVars, reposVars, refsVars>>
AfterToken(ps) ==
    /\ key' = ps.key
    /\ res' = ps.res
    /\ text' = ps.text
    /\ p_pc' = IF ps.threw THEN "error" ELSE "streaming"
    /\ nEvents' = nEvents + 1

\* an element start reaches the rewriter
StartElement ==
    /\ p_pc = "streaming" /\ ~inText
    /\ nEvents < MaxEvents /\ Len(open) < MaxDepth
    /\ \E el \in ElementsOf(parser) :
         LET ps == DispatchElement(RulesOf(parser), 1, ParserState, el) IN
         /\ AfterToken(ps)
         /\ open' = Append(open, el)
         /\ startKey' = Append(startKey, PropName(ps.key))
         /\ filed' = {[rule |-> f.rule, key |-> f.key, startKey |-> PropName(ps.key)] :
                        f \in ps.filed}
    /\ UNCHANGED <<parser, inText, calls, p_ret>>
    /\ UNCHANGED <<countVars, crawlVars, transformVars, reposVars, refsVars>>
\* a chunk of a text node inside an open element reaches the rewriter
TextChunk ==
    /\ p_pc = "streaming" /\ open # <<>>
    /\ nEvents < MaxEvents
    /\ \E c \in TextChunks :
         LET chunk == [within |-> Within(open), text |-> c.text, last |-> c.last]
             ps == DispatchText(RulesOf(parser), 1, ParserState, chunk) IN
         /\ AfterToken(ps)
         /\ inText' = ~c.last
         /\ filed' = {[rule |-> f.rule, key |-> f.key,
                       startKey |-> startKey[MatchedElement(RulesOf(parser), f.rule, open)]] :
                        f \in ps.filed}
    /\ UNCHANGED <<parser, open, startKey, calls, p_ret>>
    /\ UNCHANGED <<countVars, crawlVars, transformVars, reposVars, refsVars>>
\* an element end
EndElement ==
    /\ p_pc = "streaming" /\ ~inText /\ open # <<>>
    /\ open' = SubSeq(open, 1, Len(open) - 1)
    /\ startKey' = SubSeq(startKey, 1, Len(startKey) - 1)
    /\ filed' = {}
    /\ UNCHANGED <<p_pc, parser, key, res, text, inText, nEvents, calls, p_ret>>
    /\ UNCHANGED <<countVars, crawlVars, transformVars, reposVars, refsVars>>
\* the stream ends: htmlparser.ts:114-118
ParseEnd ==
    /\ p_pc = "streaming" /\ ~inText /\ open = <<>>
    /\ p_ret' = res
    /\ key' = InitialKey
    /\ res' = EmptyObj
    /\ p_pc' = "returned"
    /\ filed' = {}
    /\ UNCHANGED <<parser, text, open, inText, nEvents, startKey, calls>>
    /\ UNCHANGED <<countVars, crawlVars, transformVars, reposVars, refsVars>>
ParseNext == ParseBegin \/ StartElement \/ TextChunk \/ EndElement \/ ParseEnd

(***************************************************************************)
(*                 ONE PARSE AS A FUNCTION OF THE DOCUMENT                 *)
(* A document is the sequence of its tokens [type, el, chunk].             *)
(***************************************************************************)

NoElement == Element({}, NoAttrs)
NoChunk == [within |-> {}, text |-> <<>>, last |-> FALSE]
StartToken(el) == [type |-> "start", el |-> el, chunk |-> NoChunk]
TextToken(within, t) ==
    [type |-> "text", el |-> NoElement, chunk |-> [within |-> within, text |-> t, last |-> TRUE]]
EndToken == [type |-> "end", el |-> NoElement, chunk |-> NoChunk]

RECURSIVE RunTokens(_, _, _)
RunTokens(rules, ps, tokens) ==
    IF tokens = <<>> \/ ps.threw THEN ps
    ELSE LET t == Head(tokens) IN
         RunTokens(rules,
                   CASE t.type = "start" -> DispatchElement(rules, 1, ps, t.el)
                     [] t.type = "text"  -> DispatchText(rules, 1, ps, t.chunk)
                     [] OTHER            -> ps,
                   Tail(tokens))

\* await parser.parse(response) on a fresh HTMLParser: [threw, res]
parse(rules, tokens) ==
    LET ps == RunTokens(rules, NewParser(rules), tokens) IN
    [threw |-> ps.threw, res |-> ps.res]

(***************************************************************************)
(*                      THE FIELD TRANSFORM PIPELINE                       *)
(***************************************************************************)

Undefined == [undefined |-> TRUE]

MapTrim(v) == [i \in 1..Len(v) |-> Trim(v[i])]

\* the check-text transform: issues.ts:159-176
CheckText(v) ==
    LET matches == DigitGroups(v, <<>>, <<>>) IN
    IF Len(matches) = 2
      THEN [status |-> IF matches[1] = matches[2] THEN "passed" ELSE "failed",
            total |-> ParseInt(matches[2]),
            passed |-> ParseInt(matches[1])]
      ELSE Undefined

\* the outcome of a callback that throws a TypeError
TypeError == [typeError |-> TRUE]

\* zip(keys, values) for a list values: htmlparser.ts:137-141.  A later duplicate
\* of a key overrides, a missing values[i] is undefined.
zip(keys, values) ==
    [k \in {keys[i] : i \in 1..Len(keys)} |->
        LET i == CHOOSE j \in 1..Len(keys) :
                    keys[j] = k /\ \A j2 \in (j + 1)..Len(keys) : keys[j2] # k
        IN IF i <= Len(values) THEN values[i] ELSE Undefined]

\* t.startsWith('/') and t.startsWith('http') on a link whose first token holds
\* its leading characters ("httpd" is the start of a relative path)
StartsWithSlash(t) == t # <<>> /\ Head(t) = "/"
StartsWithHttp(t) ==
    t # <<>> /\ Head(t) \in {"http://", "https://", "https://github.com", "httpd"}

\* .filter((item, index, array) => array.indexOf(item) === index)
RECURSIVE FirstOccurrences(_, _)
FirstOccurrences(v, acc) ==
    IF v = <<>> THEN acc
    ELSE FirstOccurrences(Tail(v),
                          IF \E j \in 1..Len(acc) : acc[j] = Head(v) THEN acc
                          ELSE Append(acc, Head(v)))

\* the mentioned-links transform without its last filter
MentionedLinksRepeated(v) ==
    SelectSeq([i \in 1..Len(v) |->
                  IF StartsWithSlash(v[i]) THEN <<"https://github.com">> \o v[i] ELSE v[i]],
              StartsWithHttp)

\* the mentioned-links transform: timeline.ts:267-279
MentionedLinks(v) ==
    LET absolute == [i \in 1..Len(v) |->
                        IF StartsWithSlash(v[i]) THEN <<"https://github.com">> \o v[i]
                        ELSE v[i]]
    IN FirstOccurrences(SelectSeq(absolute, StartsWithHttp), <<>>)

\* v.map((t) => t.trim()).join(' ')
RECURSIVE JoinTrimmed(_)
JoinTrimmed(v) ==
    IF v = <<>> THEN <<>>
    ELSE IF Len(v) = 1 THEN Trim(v[1])
    ELSE Trim(v[1]) \o <<" ">> \o JoinTrimmed(Tail(v))

\* The calls of a callback that throw a TypeError: v[0].trim() of an empty list
\* (v[0] is undefined); zip(v, undefined) when res[k] has no reactionsCount
\* (values[i] of undefined), and zip of an empty list (Object.assign.apply({}, [])
\* is Object.assign() without a target).
Throws(fn, v, item) ==
    CASE fn \in {"trimmed", "id"} -> v = <<>>
      [] fn = "reactions" -> v = <<>> \/ "reactionsCount" \notin DOMAIN item
      [] OTHER -> FALSE

\* The callbacks handed to fieldMap, by name: fn(v, key); item is res[key] of the
\* collection the callback's closure reads (the one being mapped).
\*   "join"     (v) => v.join('')                                  issues.ts:146-155
\*   "trims"    (v) => v.map((t) => t.trim())                      issues.ts:156
\*   "check"    the check-text transform                           issues.ts:159-176
\*   "name"     (v) => v.join('').replace('\n', '').trim()         dependents.ts:78-80
\*   "number"   (v) => parseInt(v.join('').replace('\n', '').replace(',', '').trim())
\*                                                                 dependents.ts:81-86
\*   "first"    (v) => v[0]                                        timeline.ts:248
\*   "trimmed"  (v) => v[0].trim()                                 timeline.ts:241
\*   "id"       (v) => v[0].trim().substring(1)                    timeline.ts:240
\*   "text"     (v) => v.map(trim).join(' ').trim().replace('\n', '')   timeline.ts:249-255
\*   "users"    (v) => v.map((t) => t.trim().substring(1))         timeline.ts:261-263
\*   "links"    the mentioned-links transform                      timeline.ts:266-279
\*   "reactions" (v, k) => zip(v, res[k]['reactionsCount'])        timeline.ts:281-283
\*   "drop"     () => undefined                                    timeline.ts:286
Callback(fn, v, k, item) ==
    CASE Throws(fn, v, item) -> TypeError
      [] fn = "join"   -> Join(v)
      [] fn = "trims"  -> MapTrim(v)
      [] fn = "check"  -> CheckText(v)
      [] fn = "name"   -> Trim(RemoveFirst(Join(v), "\n"))
      [] fn = "number" -> ParseInt(Trim(RemoveFirst(RemoveFirst(Join(v), "\n"), ",")))
      [] fn = "first"  -> IF v = <<>> THEN Undefined ELSE v[1]
      [] fn = "trimmed" -> Trim(v[1])
      [] fn = "id"     -> IF Trim(v[1]) = <<>> THEN <<>> ELSE Tail(Trim(v[1]))
      [] fn = "text"   -> RemoveFirst(Trim(JoinTrimmed(v)), "\n")
      [] fn = "users"  -> [i \in 1..Len(v) |->
                              IF Trim(v[i]) = <<>> THEN <<>> ELSE Tail(Trim(v[i]))]
      [] fn = "links"  -> MentionedLinks(v)
      [] fn = "reactions" -> zip(v, item["reactionsCount"])
      [] fn = "drop"   -> Undefined

\* a fieldMap whose result keeps the transformed field only
fieldMapOnly(obj, name, fn) ==
    [key0 \in DOMAIN obj |->
        [k \in (DOMAIN obj[key0]) \cap {name} |->
            Callback(fn, obj[key0][k], key0, obj[key0])]]

\* fieldMap(obj, name, fn) = objectMap(obj, (item, key) =>
\*                             objectMap(item, (v, k) => (k === name ? fn(v, key) : v)))
fieldMap(obj, name, fn) ==
    [key0 \in DOMAIN obj |->
        [k \in DOMAIN obj[key0] |->
            IF k = name THEN Callback(fn, obj[key0][k], key0, obj[key0])
                        ELSE obj[key0][k]]]

\* fieldMap(obj, name, fn) throws: one of its calls of fn does
fieldMapThrows(obj, name, fn) ==
    \E key0 \in DOMAIN obj :
        name \in DOMAIN obj[key0] /\ Throws(fn, obj[key0][name], obj[key0])

\* the transforms of parseIssues: issues.ts:146-176
IssuesTransform(r0) ==
    LET r1 == fieldMap(r0, "title", "join")
        r2 == fieldMap(r1, "author", "join")
        r3 == fieldMap(r2, "bot", "join")
        r4 == fieldMap(r3, "actedAt", "join")
        r5 == fieldMap(r4, "check", "join")
        r6 == fieldMap(r5, "checkStatus", "join")
        r7 == fieldMap(r6, "next", "join")
        r8 == fieldMap(r7, "total", "join")
        r9 == fieldMap(r8, "current", "join")
        r10 == fieldMap(r9, "state", "join")
        r11 == fieldMap(r10, "labels", "trims")
    IN fieldMap(r11, "check", "check")

\* parseIssues: issues.ts:83-179. [threw, res]
parseIssues(tokens) ==
    LET p == parse(IssuesRules, tokens) IN
    IF p.threw THEN p ELSE [threw |-> FALSE, res |-> IssuesTransform(p.res)]

\* tokens that /[a-zA-Z0-9]/ matches: the cursor tokens of the modelled links
IsAlnum(c) == c \in {"c1", "c2", "c3", "c4", "c5", "b"} \/ IsDigit(c)

RECURSIVE AlnumPrefix(_)
AlnumPrefix(s) ==
    IF s # <<>> /\ IsAlnum(Head(s)) THEN <<Head(s)>> \o AlnumPrefix(Tail(s)) ELSE <<>>

\* s.match(/dependents_after=([a-zA-Z0-9]*)/): [matched, group]
MatchDependentsAfter(s) ==
    IF \E i \in 1..Len(s) : s[i] = "dependents_after="
      THEN LET i == CHOOSE j \in 1..Len(s) :
                      s[j] = "dependents_after=" /\ \A j2 \in 1..(j - 1) : s[j2] # "dependents_after="
           IN [matched |-> TRUE, group |-> AlnumPrefix(SubSeq(s, i + 1, Len(s)))]
      ELSE [matched |-> FALSE, group |-> <<>>]

\* a pagination step that always takes the first link
DependentsPaginationFirstLink(r) ==
    IF PaginationKey \in DOMAIN r
      THEN LET links == r[PaginationKey]["next"]
               next == links[1]
               m == MatchDependentsAfter(next)
           IN Put(r, PaginationKey,
                  IF ~m.matched
                    THEN Put(Put(r[PaginationKey], "next", <<>>), "after", <<>>)
                    ELSE Put(Put(r[PaginationKey], "next", next), "after", m.group))
      ELSE r

\* dependents.ts:88-103
DependentsPagination(r) ==
    IF PaginationKey \in DOMAIN r
      THEN LET links == r[PaginationKey]["next"]
               next == IF Len(links) > 1 THEN links[2] ELSE links[1]
               m == MatchDependentsAfter(next)
           IN Put(r, PaginationKey,
                  IF ~m.matched
                    THEN Put(Put(r[PaginationKey], "next", <<>>), "after", <<>>)
                    ELSE Put(Put(r[PaginationKey], "next", next), "after", m.group))
      ELSE r

\* the transforms of parseDependents: dependents.ts:78-86
DependentsTransform(r0) ==
    LET r1 == fieldMap(r0, "owner", "name")
        r2 == fieldMap(r1, "name", "name")
        r3 == fieldMap(r2, "package", "name")
        r4 == fieldMap(r3, "stars", "number")
    IN fieldMap(r4, "forks", "number")

\* parseDependents: dependents.ts:34-106. [threw, res]
parseDependents(tokens) ==
    LET p == parse(DependentsRules, tokens) IN
    IF p.threw THEN p
    ELSE [threw |-> FALSE, res |-> DependentsPagination(DependentsTransform(p.res))]

\* the transforms of parseTimeline: timeline.ts:240-286.  A callback that throws
\* ends parseTimeline: [threw, res]
TimelineTransform(r0) ==
    LET r1 == fieldMap(r0, "id", "id")
        r2 == fieldMap(r1, "author", "trimmed")
        r3 == fieldMap(r2, "bot", "trimmed")
        r4 == fieldMap(r3, "head", "trimmed")
        r5 == fieldMap(r4, "base", "trimmed")
        r6 == fieldMap(r5, "authorLabels", "trims")
        r7 == fieldMap(r6, "labels", "trims")
        r8 == fieldMap(r7, "actedAt", "first")
        r9 == fieldMap(r8, "text", "text")
        r10 == fieldMap(r9, "title", "trimmed")
        r11 == fieldMap(r10, "state", "first")
        r12 == fieldMap(r11, "type", "first")
        r13 == fieldMap(r12, "isEdited", "first")
        r14 == fieldMap(r13, "mentionedUsers", "users")
        r15 == fieldMap(r14, "mentionedLinks", "links")
        r16 == fieldMap(r15, "reactions", "reactions")
        threw ==
            \/ fieldMapThrows(r0, "id", "id") \/ fieldMapThrows(r1, "author", "trimmed")
            \/ fieldMapThrows(r2, "bot", "trimmed") \/ fieldMapThrows(r3, "head", "trimmed")
            \/ fieldMapThrows(r4, "base", "trimmed") \/ fieldMapThrows(r9, "title", "trimmed")
            \/ fieldMapThrows(r15, "reactions", "reactions")
    IN IF threw
         THEN [threw |-> TRUE, res |-> EmptyObj]
         ELSE [threw |-> FALSE, res |-> fieldMap(r16, "reactionsCount", "drop")]

(***************************************************************************)
(*                  ONE APPLICATION OF A TRANSFORM                         *)
(* The argument is any value the parser can hand over: the raw text of a   *)
(* check label, the list of link attributes of a timeline item, or the     *)
(* record collection of a timeline page.                                   *)
(***************************************************************************)

\* bounds of the arguments
MaxTextLen == 5
MaxLinks == 3
MaxItems == 2

\* raw check labels: "7/7", "3/7", "07/7", "7", "3/7/0", ...
CheckTexts == UNION {[1..m -> {"0", "3", "7", "/"}] : m \in 0..MaxTextLen}

\* link attributes: root-relative, absolute, another scheme, a fragment, and a
\* relative path
Links == { <<"/", "p">>, <<"https://", "x">>, <<"mailto:", "m">>, <<"#", "a">>,
           <<"httpd", ".html">> }
LinkLists == UNION {[1..m -> Links] : m \in 0..MaxLinks}

\* what the text rules can have collected for one timeline item
TimelineItems ==
    LET fields == [reactions |-> {<<<<"+1">>>>, <<<<"+1">>, <<"heart">>>>},
                   reactionsCount |-> {<<<<"1">>>>},
                   author |-> {<<<<" ", "a", " ">>>>}]
        values == UNION {fields[f] : f \in DOMAIN fields}
    IN UNION { {it \in [F -> values] : \A f \in F : it[f] \in fields[f]} :
                 F \in SUBSET DOMAIN fields }
TimelineCollections ==
    UNION { [{NumToStr(j) : j \in 0..(m - 1)} -> TimelineItems] : m \in 0..MaxItems }

\* the text nodes of a title element: raw text as the rewriter delivers it, with
\* the entity &lt; undecoded
MaxChunks == 3
NodeTexts == { <<>>, <<"a">>, LtEntity, <<"a">> \o LtEntity \o <<"b">>, <<"&", "l">> }
\* the ways the stream can deliver text t in n chunks (a chunk can be empty)
Splits(t, n) ==
    { [j \in 1..n |-> SubSeq(t, (IF j = 1 THEN 0 ELSE cut[j - 1]) + 1,
                                IF j = n THEN Len(t) ELSE cut[j])] :
        cut \in {c \in [1..(n - 1) -> 0..Len(t)] :
                    \A j \in 1..(n - 2) : c[j] <= c[j + 1]} }
ChunkedNodes == UNION { Splits(t, n) : t \in NodeTexts, n \in 1..MaxChunks }
\* one text node, or two separated by a child element
ChunkedTexts == [1..1 -> ChunkedNodes] \cup [1..2 -> ChunkedNodes]

\* the chunks of one text node as tokens: lastInTextNode on the last one
ChunkTokens(sel, chunks) ==
    [j \in 1..Len(chunks) |->
        [type |-> "text", el |-> NoElement,
         chunk |-> [within |-> {sel}, text |-> chunks[j], last |-> j = Len(chunks)]]]
\* <span class="markdown-title"> node 1 [ <b></b> node 2 ] </span>
TitleTokens(nodes) ==
    <<StartToken(Element({SelTitle}, NoAttrs))>> \o ChunkTokens(SelTitle, nodes[1])
    \o (IF Len(nodes) = 2
          THEN <<StartToken(NoElement), EndToken>> \o ChunkTokens(SelTitle, nodes[2])
          ELSE <<>>)
    \o <<EndToken>>

TransformInputs ==
    [kind : {"check"}, val : CheckTexts] \cup [kind : {"links"}, val : LinkLists]
    \cup [kind : {"timeline"}, val : TimelineCollections]
    \cup [kind : {"text"}, val : ChunkedTexts]

TransformIdle == t_pc = "off" /\ t_in = <<>> /\ t_out = NoResult

TransformInit == t_pc = "ready" /\ t_in \in TransformInputs /\ t_out = NoResult

\* the check-text callback is called: issues.ts:159-176
ApplyCheckText ==
    /\ t_pc = "ready" /\ t_in.kind = "check"
    /\ t_out' = Callback("check", t_in.val, <<>>, EmptyObj)
    /\ t_pc' = "check"
    /\ UNCHANGED t_in
    /\ UNCHANGED <<countVars, parseVars, crawlVars, reposVars, refsVars>>
\* the mentioned-links callback is called: timeline.ts:266-279
ApplyMentionedLinks ==
    /\ t_pc = "ready" /\ t_in.kind = "links"
    /\ t_out' = Callback("links", t_in.val, <<>>, EmptyObj)
    /\ t_pc' = "links"
    /\ UNCHANGED t_in
    /\ UNCHANGED <<countVars, parseVars, crawlVars, reposVars, refsVars>>
\* fieldMap(res, name, fn) is called on a collection: htmlparser.ts:128-135
ApplyFieldMap ==
    /\ t_pc = "ready" /\ t_in.kind = "timeline"
    /\ \E name \in {"author", "reactions", "reactionsCount", "title"},
          fn \in {"trimmed", "first", "drop"} :
         t_out' = [name |-> name, fn |-> fn, res |-> fieldMap(t_in.val, name, fn)]
    /\ t_pc' = "fieldMap"
    /\ UNCHANGED t_in
    /\ UNCHANGED <<countVars, parseVars, crawlVars, reposVars, refsVars>>
\* the transforms of parseTimeline run on the parsed collection: timeline.ts:240-288
ApplyTimelineTransform ==
    /\ t_pc = "ready" /\ t_in.kind = "timeline"
    /\ t_out' = TimelineTransform(t_in.val)
    /\ t_pc' = "timeline"
    /\ UNCHANGED t_in
    /\ UNCHANGED <<countVars, parseVars, crawlVars, reposVars, refsVars>>
\* a fresh issue parser streams a title element whose text arrives in chunks:
\* htmlparser.ts:63-81
ApplyTextRule ==
    /\ t_pc = "ready" /\ t_in.kind = "text"
    /\ t_out' = RunTokens(IssuesRules, NewParser(IssuesRules), TitleTokens(t_in.val))
    /\ t_pc' = "text"
    /\ UNCHANGED t_in
    /\ UNCHANGED <<countVars, parseVars, crawlVars, reposVars, refsVars>>
TransformNext ==
    \/ ApplyCheckText \/ ApplyMentionedLinks \/ ApplyFieldMap \/ ApplyTimelineTransform
    \/ ApplyTextRule

(***************************************************************************)
(*                      THE PAGE-WALKING CRAWLERS                          *)
(***************************************************************************)

\* bounds of the crawls
MaxPages == 2
MaxRows == 1
MaxDepRows == 3

\* What one HTTP exchange of fetchURL can be: status 200, another status, or a
\* rejected fetch
FetchOutcomes == {"ok", "status", "reject"}

\* fetchURL (request.ts:13-36): throws StatusError unless the status is 200
fetchURL(outcome) == [threw |-> outcome # "ok"]

\* Object.assign(target, target, source): source's own properties replace target's
ObjectAssign(target, source) ==
    [k \in (DOMAIN target) \cup (DOMAIN source) |->
        IF k \in DOMAIN source THEN source[k] ELSE target[k]]

\* the property names of the accumulator that are entities
EntityKeys(obj) == (DOMAIN obj) \ {PaginationKey, KeyIsNull}

\* for (let entry in obj): integer-like property names come first, ascending
RECURSIVE Ascending(_)
Ascending(S) ==
    IF S = {} THEN <<>>
    ELSE LET m == CHOOSE k \in S : \A k2 \in S : ParseInt(k) <= ParseInt(k2)
         IN <<m>> \o Ascending(S \ {m})

\* ret['data'].push({ id: parseInt(entry), ...full_res[entry] }) for every entity
PayloadData(full) ==
    LET ks == Ascending(EntityKeys(full)) IN
    [i \in 1..Len(ks) |-> Put(full[ks[i]], "id", ParseInt(ks[i]))]

\* obj with field name set to src[from] when src has the field (an undefined value
\* is not serialised)
Copy(obj, name, src, from) == IF from \in DOMAIN src THEN Put(obj, name, src[from]) ELSE obj

GitHub == <<"https://github.com">>

\* a ceiling test that lets one more page through
AtOrBelowMaxPages(n, mp) == mp.given /\ n <= mp.n

\* pageCount < params.maxPages; an absent maxPages is undefined and compares false
BelowMaxPages(n, mp) == mp.given /\ n < mp.n

\* the while condition: issues.ts:229-238, dependents.ts:166-171
HasNextPage(r, n, mp) ==
    /\ PaginationKey \in DOMAIN r
    /\ "next" \in DOMAIN r[PaginationKey]
    /\ r[PaginationKey]["next"] # <<>>
    /\ BelowMaxPages(n, mp)

CrawlInit ==
    /\ h_pc = "idle"
    /\ maxPages = [given |-> FALSE, n |-> 0]
    /\ pageCount = 0
    /\ page_res = EmptyObj
    /\ full_res = EmptyObj
    /\ reqURL = <<>>
    /\ fetched = <<>>
    /\ merged = <<>>
    /\ h_ret = NoResult

\* ---------------------------------------------------------------- issues

\* the rows of a modelled issue page: an id, or "noid" for a row without id attribute
RowKinds == {"1", "2", "noid"}
IssueRowSeqs == UNION {[1..m -> RowKinds] : m \in 0..MaxRows}
\* pagination of a modelled issue page: no pagination element at all, the current
\* page marker only, or the marker and a next link (to the following page, or back
\* to page 1)
IssuePaginations == {"none", "current", "next", "back"}
IssueDocs == [rows : IssueRowSeqs, sent : BOOLEAN, pag : IssuePaginations]

IssuesPath(n) == <<"/issues?page=">> \o NumToStr(n)

RECURSIVE IssueRowTokens(_, _)
IssueRowTokens(rows, n) ==
    IF rows = <<>> THEN <<>>
    ELSE <<StartToken(Element({SelIssueRow},
                              IF Head(rows) = "noid" THEN NoAttrs
                              ELSE Attr("id", <<"issue_", Head(rows)>>))),
           StartToken(Element({SelTitle}, NoAttrs)),
           TextToken({SelTitle}, <<"t", Digits[n + 1]>>),
           EndToken, EndToken>> \o IssueRowTokens(Tail(rows), n)

\* the document of the n-th fetched page
IssueTokens(doc, n) ==
    (IF doc.sent
       THEN <<StartToken(Element({SelIssueLabel}, NoAttrs)),
              TextToken({SelIssueLabel}, <<"L", Digits[n + 1]>>), EndToken>>
       ELSE <<>>)
    \o IssueRowTokens(doc.rows, n)
    \o (IF doc.pag = "none" THEN <<>>
        ELSE <<StartToken(Element({SelCurrentPage}, NoAttrs)),
               TextToken({SelCurrentPage}, NumToStr(n)), EndToken>>)
    \o (IF doc.pag \in {"next", "back"}
          THEN <<StartToken(Element({SelRelNext},
                     Attr("href", IssuesPath(IF doc.pag = "next" THEN n + 1 ELSE 1)))),
                 EndToken>>
          ELSE <<>>)

\* the merge of dependents.ts:179-188 applied to an issue page: the page's entity
\* names shifted by the size of the accumulator
MergeIssuesShifted(full, r) ==
    LET shift == Cardinality(DOMAIN full)
        newName(k) == IF k \in {KeyIsNull, PaginationKey} THEN k
                      ELSE NumToStr(ParseInt(k) + shift)
    IN ObjectAssign(full, [k2 \in {newName(k) : k \in DOMAIN r} |->
                             r[CHOOSE k \in DOMAIN r : newName(k) = k2]])

\* issues.ts:245
MergeIssues(full, r) == ObjectAssign(full, r)

\* a payload that never carries the next link
IssuesPayloadNoNext(full, url) ==
    LET r0 == [x \in {"data", "url"} |-> IF x = "data" THEN PayloadData(full) ELSE url]
        pg == IF PaginationKey \in DOMAIN full THEN full[PaginationKey] ELSE EmptyObj
        r1 == Copy(Copy(r0, "total", pg, "total"), "current", pg, "current")
    IN Copy(r1, "uncollected", full, KeyIsNull)

\* issues.ts:250-272
IssuesPayload(full, url) ==
    LET r0 == [x \in {"data", "url"} |-> IF x = "data" THEN PayloadData(full) ELSE url]
        pg == IF PaginationKey \in DOMAIN full THEN full[PaginationKey] ELSE EmptyObj
        r1 == Copy(Copy(r0, "total", pg, "total"), "current", pg, "current")
        r2 == IF "next" \in DOMAIN pg /\ pg["next"] # <<>>
                THEN Put(r1, "next", GitHub \o pg["next"]) ELSE r1
    IN Copy(r2, "uncollected", full, KeyIsNull)

\* a loop that requests the page after the next one along with the next one
IssuesContinuePrefetch(r, full, n) ==
    IF HasNextPage(r, n, maxPages)
      THEN /\ reqURL' = GitHub \o r[PaginationKey]["next"]
           /\ fetched' = fetched \o <<GitHub \o r[PaginationKey]["next"],
                                      GitHub \o IssuesPath(n + 2)>>
           /\ h_pc' = "next"
           /\ h_ret' = h_ret
      ELSE /\ h_pc' = "done"
           /\ h_ret' = IssuesPayload(full, fetched[1])
           /\ UNCHANGED <<reqURL, fetched>>

\* after a merge: the loop test, then the next fetch or the return
IssuesContinue(r, full, n) ==
    IF HasNextPage(r, n, maxPages)
      THEN /\ reqURL' = GitHub \o r[PaginationKey]["next"]
           /\ fetched' = Append(fetched, GitHub \o r[PaginationKey]["next"])
           /\ h_pc' = "next"
           /\ h_ret' = h_ret
      ELSE /\ h_pc' = "done"
           /\ h_ret' = IssuesPayload(full, fetched[1])
           /\ UNCHANGED <<reqURL, fetched>>

Throw ==
    /\ h_pc' = "error"
    /\ UNCHANGED <<pageCount, page_res, full_res, reqURL, fetched, merged, h_ret>>

\* handle up to its first await: issues.ts:198-223
IssuesStart ==
    /\ h_pc = "idle"
    /\ maxPages' \in {[given |-> FALSE, n |-> 0]} \cup {[given |-> TRUE, n |-> k] : k \in 0..MaxPages}
    /\ reqURL' = GitHub \o IssuesPath(1)
    /\ fetched' = <<GitHub \o IssuesPath(1)>>
    /\ h_pc' = "first"
    /\ UNCHANGED <<pageCount, page_res, full_res, merged, h_ret>>
    /\ UNCHANGED <<countVars, parseVars, transformVars, reposVars, refsVars>>
\* the first response: issues.ts:223-238
IssuesFirstPage ==
    /\ h_pc = "first"
    /\ \E outcome \in FetchOutcomes, doc \in IssueDocs :
         LET p == parseIssues(IssueTokens(doc, 1)) IN
         IF fetchURL(outcome).threw \/ p.threw THEN Throw
         ELSE /\ pageCount' = 1
              /\ page_res' = p.res
              /\ full_res' = p.res
              /\ merged' = <<p.res>>
              /\ IssuesContinue(p.res, p.res, 1)
    /\ UNCHANGED maxPages
    /\ UNCHANGED <<countVars, parseVars, transformVars, reposVars, refsVars>>
\* a later response: issues.ts:242-247 and 229-238
IssuesNextPage ==
    /\ h_pc = "next"
    /\ \E outcome \in FetchOutcomes, doc \in IssueDocs :
         LET p == parseIssues(IssueTokens(doc, pageCount + 1)) IN
         IF fetchURL(outcome).threw \/ p.threw THEN Throw
         ELSE /\ pageCount' = pageCount + 1
              /\ page_res' = p.res
              /\ full_res' = MergeIssues(full_res, p.res)
              /\ merged' = Append(merged, p.res)
              /\ IssuesContinue(p.res, MergeIssues(full_res, p.res), pageCount + 1)
    /\ UNCHANGED maxPages
    /\ UNCHANGED <<countVars, parseVars, transformVars, reposVars, refsVars>>
IssuesNext == IssuesStart \/ IssuesFirstPage \/ IssuesNextPage

\* ---------------------------------------------------------------- dependents

\* a modelled dependents page: its div.Box-row rows in order (TRUE: the row holds a
\* repository link; FALSE: a row none of whose elements a rule collects), whether
\* a user link stands before the first row, and its pagination links in order
DepRowSeqs == UNION {[1..m -> BOOLEAN] : m \in 0..MaxDepRows}
DepLinkLists == {<<>>, <<"after">>, <<"before">>, <<"before", "after">>, <<"after", "before">>}
DependentDocs == [rows : DepRowSeqs, sent : BOOLEAN, links : DepLinkLists]

DependentsBase == <<"https://github.com/o/n/network/dependents?dependent_type=REPOSITORY">>
Cursors == <<"c1", "c2", "c3", "c4", "c5">>
\* the href of a pagination link of the n-th fetched page
LinkHref(kind, n) ==
    IF kind = "after" THEN DependentsBase \o <<"&", "dependents_after=", Cursors[n + 1]>>
    ELSE DependentsBase \o <<"&", "dependents_before=", "b">>

RECURSIVE DepRowTokens(_, _, _)
DepRowTokens(rows, n, i) ==
    IF i > Len(rows) THEN <<>>
    ELSE <<StartToken(Element({SelBoxRow}, NoAttrs))>>
         \o (IF rows[i]
               THEN <<StartToken(Element({SelRepository}, NoAttrs)),
                      TextToken({SelRepository}, <<"r", Digits[n + 1], Digits[i]>>),
                      EndToken>>
               ELSE <<>>)
         \o <<EndToken>> \o DepRowTokens(rows, n, i + 1)

RECURSIVE DepLinkTokens(_, _)
DepLinkTokens(links, n) ==
    IF links = <<>> THEN <<>>
    ELSE <<StartToken(Element({SelPaginate}, Attr("href", LinkHref(Head(links), n)))),
           EndToken>> \o DepLinkTokens(Tail(links), n)

\* the document of the n-th fetched page
DependentTokens(doc, n) ==
    (IF doc.sent
       THEN <<StartToken(Element({SelUser}, NoAttrs)),
              TextToken({SelUser}, <<"u", Digits[n + 1]>>), EndToken>>
       ELSE <<>>)
    \o DepRowTokens(doc.rows, n, 1)
    \o DepLinkTokens(doc.links, n)

\* dependents.ts:179-188: the ordinal keys of the page are shifted by
\* Object.keys(full_res).length, the bucket names are kept
MergeDependents(full, r) ==
    LET shift == Cardinality(DOMAIN full)
        newName(k) == IF k \in {KeyIsNull, PaginationKey} THEN k
                      ELSE NumToStr(ParseInt(k) + shift)
        res_mutated == [k2 \in {newName(k) : k \in DOMAIN r} |->
                          r[CHOOSE k \in DOMAIN r : newName(k) = k2]]
    IN ObjectAssign(full, res_mutated)

\* dependents.ts:193-216
DependentsPayload(full, url) ==
    LET r0 == [x \in {"data", "url"} |-> IF x = "data" THEN PayloadData(full) ELSE url]
        pg == IF PaginationKey \in DOMAIN full THEN full[PaginationKey] ELSE EmptyObj
        r1 == Copy(Copy(r0, "total", pg, "total"), "current", pg, "current")
        r2 == IF "next" \in DOMAIN pg /\ pg["next"] # <<>>
                THEN Put(Put(r1, "next", pg["next"]), "after", pg["after"]) ELSE r1
    IN Copy(r2, "uncollected", full, KeyIsNull)

DependentsContinue(r, full, n) ==
    IF HasNextPage(r, n, maxPages)
      THEN /\ reqURL' = r[PaginationKey]["next"]
           /\ fetched' = Append(fetched, r[PaginationKey]["next"])
           /\ h_pc' = "next"
           /\ h_ret' = h_ret
      ELSE /\ h_pc' = "done"
           /\ h_ret' = DependentsPayload(full, fetched[1])
           /\ UNCHANGED <<reqURL, fetched>>

\* handle up to its first await: dependents.ts:150-159; maxPages is validated to
\* lie in 1..10 (dependents.ts:23-30)
DependentsStart ==
    /\ h_pc = "idle"
    /\ maxPages' \in {[given |-> TRUE, n |-> k] : k \in 1..MaxPages}
    /\ reqURL' = DependentsBase
    /\ fetched' = <<DependentsBase>>
    /\ h_pc' = "first"
    /\ UNCHANGED <<pageCount, page_res, full_res, merged, h_ret>>
    /\ UNCHANGED <<countVars, parseVars, transformVars, reposVars, refsVars>>
\* the first response: dependents.ts:159-171
DependentsFirstPage ==
    /\ h_pc = "first"
    /\ \E outcome \in FetchOutcomes, doc \in DependentDocs :
         LET p == parseDependents(DependentTokens(doc, 1)) IN
         IF fetchURL(outcome).threw \/ p.threw THEN Throw
         ELSE /\ pageCount' = 1
              /\ page_res' = p.res
              /\ full_res' = p.res
              /\ merged' = <<p.res>>
              /\ DependentsContinue(p.res, p.res, 1)
    /\ UNCHANGED maxPages
    /\ UNCHANGED <<countVars, parseVars, transformVars, reposVars, refsVars>>
\* a later response: dependents.ts:175-190 and 166-171
DependentsNextPage ==
    /\ h_pc = "next"
    /\ \E outcome \in FetchOutcomes, doc \in DependentDocs :
         LET p == parseDependents(DependentTokens(doc, pageCount + 1)) IN
         IF fetchURL(outcome).threw \/ p.threw THEN Throw
         ELSE /\ pageCount' = pageCount + 1
              /\ page_res' = p.res
              /\ full_res' = MergeDependents(full_res, p.res)
              /\ merged' = Append(merged, p.res)
              /\ DependentsContinue(p.res, MergeDependents(full_res, p.res), pageCount + 1)
    /\ UNCHANGED maxPages
    /\ UNCHANGED <<countVars, parseVars, transformVars, reposVars, refsVars>>
DependentsNext == DependentsStart \/ DependentsFirstPage \/ DependentsNextPage

(***************************************************************************)
(*                  THE CONCURRENT REPOSITORY LISTINGS                     *)
(* handle pushes one fetch per page and awaits Promise.all: the fetches    *)
(* are in flight together and resolve in any order.                        *)
(***************************************************************************)

\* bounds of a listing: pages requested, repositories on a page
MaxRepoPages == 2
MaxPageRepos == 2

\* what the server can return for one page: no repository twice, but the same
\* repository can be on two pages (GitHub's since-offsets overlap; GitLab's pages shift when a project is
\* created between two requests), with the same or with a newer description
Repos == [id : 1..2, description : {"a", "b"}]
RepoLists ==
    { list \in UNION {[1..m -> Repos] : m \in 0..MaxPageRepos} :
        \A i, j \in 1..Len(list) : i # j => list[i].id # list[j].id }

Pending == [pending |-> TRUE]

\* repos.flat()
RECURSIVE Flat(_)
Flat(lists) == IF lists = <<>> THEN <<>> ELSE Head(lists) \o Flat(Tail(lists))

\* for (const repo of list) map.set(repo.id, repo); Array.from(map.values()):
\* a Map keeps the place of a key's first insertion and the value set last
RECURSIVE MapById(_, _)
MapById(list, acc) ==
    IF list = <<>> THEN acc
    ELSE MapById(Tail(list),
                 IF \E j \in 1..Len(acc) : acc[j].id = Head(list).id
                   THEN [j \in 1..Len(acc) |->
                            IF acc[j].id = Head(list).id THEN Head(list) ELSE acc[j]]
                   ELSE Append(acc, Head(list)))

\* what handle returns once Promise.all has resolved with the pages in the order
\* of the promises: github/repos.ts:99-105, gitlab/repos.ts:131-133
ReposResult(host, pages) ==
    IF host = "github" THEN MapById(Flat(pages), <<>>) ELSE Flat(pages)

ReposIdle ==
    r_pc = "off" /\ r_host = "none" /\ r_pages = <<>> /\ r_order = <<>> /\ r_ret = NoResult

ReposInit ==
    r_pc = "idle" /\ r_host \in {"github", "gitlab"} /\ r_pages = <<>> /\ r_order = <<>>
    /\ r_ret = NoResult

\* handle up to await Promise.all(promises): every page's fetch is started
\* (github/repos.ts:81-98, gitlab/repos.ts:112-130)
ReposStart ==
    /\ r_pc = "idle"
    /\ \E numPages \in 1..MaxRepoPages : r_pages' = [i \in 1..numPages |-> Pending]
    /\ r_pc' = "waiting"
    /\ UNCHANGED <<r_host, r_order, r_ret>>
    /\ UNCHANGED <<countVars, parseVars, crawlVars, transformVars, refsVars>>
\* one of the fetches in flight resolves with its page, or rejects: Promise.all
\* then rejects and handle throws
ReposResponse ==
    /\ r_pc = "waiting"
    /\ \E i \in 1..Len(r_pages) :
         /\ r_pages[i] = Pending
         /\ \/ /\ \E list \in RepoLists : r_pages' = [r_pages EXCEPT ![i] = [repos |-> list]]
               /\ r_order' = Append(r_order, i)
               /\ r_pc' = "waiting"
            \/ /\ r_pc' = "error"
               /\ UNCHANGED <<r_pages, r_order>>
    /\ UNCHANGED <<r_host, r_ret>>
    /\ UNCHANGED <<countVars, parseVars, crawlVars, transformVars, refsVars>>
\* every fetch has resolved: Promise.all resolves, handle merges and returns
ReposReturn ==
    /\ r_pc = "waiting"
    /\ \A i \in 1..Len(r_pages) : r_pages[i] # Pending
    /\ r_ret' = ReposResult(r_host, [i \in 1..Len(r_pages) |-> r_pages[i].repos])
    /\ r_pc' = "done"
    /\ UNCHANGED <<r_host, r_pages, r_order>>
    /\ UNCHANGED <<countVars, parseVars, crawlVars, transformVars, refsVars>>
ReposNext == ReposStart \/ ReposResponse \/ ReposReturn

(***************************************************************************)
(*            REMOTE REFS OF SEVERAL REPOSITORIES  (git/refs.ts)           *)
(* The url parameter is a list of 1 to 100 strings; nothing keeps a URL    *)
(* from being listed twice.  Every URL gets its own promise; a promise     *)
(* never rejects, it resolves with {url, refs, success: true} or with      *)
(* {url, error, success: false}.                                           *)
(***************************************************************************)

MaxUrls == 3

GitUrls == {<<"u1">>, <<"u2">>}
UrlLists == UNION {[1..m -> GitUrls] : m \in 1..MaxUrls}
\* the refs object built from a remote's info (refs.ts:62-79) and the message of
\* an error caught (refs.ts:89)
RefObjects == {[HEAD |-> "oid1"], [HEAD |-> "oid2"]}
ErrorMessages == {"HTTP Error: 404"}

RefsIdle == g_pc = "off" /\ gitUrls = <<>> /\ results = <<>> /\ g_ret = NoResult

RefsInit == g_pc = "idle" /\ gitUrls \in UrlLists /\ results = <<>> /\ g_ret = NoResult

\* handle up to await Promise.all(promises): gitUrls.map starts every fetch
\* (refs.ts:35-61, 96)
RefsStart ==
    /\ g_pc = "idle"
    /\ results' = [i \in 1..Len(gitUrls) |-> Pending]
    /\ g_pc' = "waiting"
    /\ UNCHANGED <<gitUrls, g_ret>>
    /\ UNCHANGED <<countVars, parseVars, crawlVars, transformVars, reposVars>>

\* one of the fetches in flight settles: getRemoteInfo resolves and the refs are
\* built, or something in the try block throws and is caught (refs.ts:57-92)
RefsSettle ==
    /\ g_pc = "waiting"
    /\ \E i \in 1..Len(results) :
         /\ results[i] = Pending
         /\ \/ \E refs \in RefObjects :
                 results' = [results EXCEPT
                               ![i] = [url |-> gitUrls[i], success |-> TRUE, refs |-> refs]]
            \/ \E error \in ErrorMessages :
                 results' = [results EXCEPT
                               ![i] = [url |-> gitUrls[i], success |-> FALSE, error |-> error]]
    /\ UNCHANGED <<g_pc, gitUrls, g_ret>>
    /\ UNCHANGED <<countVars, parseVars, crawlVars, transformVars, reposVars>>

\* results.forEach (refs.ts:99-105) over the first n results: a later result for
\* the same url replaces the earlier entry of its own map and leaves the other map
RECURSIVE AllRefs(_, _)
AllRefs(rs, n) ==
    IF n = 0 THEN EmptyObj
    ELSE IF rs[n].success THEN Put(AllRefs(rs, n - 1), rs[n].url, rs[n].refs)
    ELSE AllRefs(rs, n - 1)
RECURSIVE AllErrs(_, _)
AllErrs(rs, n) ==
    IF n = 0 THEN EmptyObj
    ELSE IF ~rs[n].success THEN Put(AllErrs(rs, n - 1), rs[n].url, rs[n].error)
    ELSE AllErrs(rs, n - 1)

\* every promise has resolved: Promise.all resolves with the results in the order
\* of gitUrls, handle fills the two maps and returns (refs.ts:96-110)
RefsReturn ==
    /\ g_pc = "waiting"
    /\ \A i \in 1..Len(results) : results[i] # Pending
    /\ g_ret' = [data |-> AllRefs(results, Len(results)),
                 error |-> AllErrs(results, Len(results))]
    /\ g_pc' = "done"
    /\ UNCHANGED <<gitUrls, results>>
    /\ UNCHANGED <<countVars, parseVars, crawlVars, transformVars, reposVars>>

RefsNext == RefsStart \/ RefsSettle \/ RefsReturn

(***************************************************************************)
(*                          SPECIFICATIONS                                 *)
(***************************************************************************)

CountIdle ==
    /\ c_pc = "off"
    /\ items = 0
    /\ zeroPage = "empty"
    /\ estimate = 0
    /\ estimatePageCount = 0
    /\ low = 0 /\ high = 0 /\ mid = 0
    /\ lastFetchNumRepos = 0
    /\ c_ret = NoResult
    /\ probes = <<>>
    /\ probeFailed = FALSE

CrawlIdle ==
    /\ h_pc = "off"
    /\ maxPages = 0
    /\ pageCount = 0
    /\ page_res = EmptyObj
    /\ full_res = EmptyObj
    /\ reqURL = <<>>
    /\ fetched = <<>>
    /\ merged = <<>>
    /\ h_ret = NoResult

InitCount == CountInit /\ ParseIdle /\ CrawlIdle /\ TransformIdle /\ ReposIdle /\ RefsIdle
SpecCount == InitCount /\ [][CountNext]_vars
\* an awaited probe settles (it resolves or rejects), and the runtime then resumes
\* the handler: repoCount.ts:48, 69
SpecCountFair == SpecCount /\ WF_vars(CountNext)

InitIssues == CrawlInit /\ CountIdle /\ ParseIdle /\ TransformIdle /\ ReposIdle /\ RefsIdle
SpecIssues == InitIssues /\ [][IssuesNext]_vars
\* an awaited fetch settles (it resolves or rejects), and the runtime then resumes
\* the handler: issues.ts:223, 242
SpecIssuesFair == SpecIssues /\ WF_vars(IssuesNext)

InitDependents == CrawlInit /\ CountIdle /\ ParseIdle /\ TransformIdle /\ ReposIdle /\ RefsIdle
SpecDependents == InitDependents /\ [][DependentsNext]_vars

InitParse == ParseInit /\ CountIdle /\ CrawlIdle /\ TransformIdle /\ ReposIdle /\ RefsIdle
SpecParse == InitParse /\ [][ParseNext]_vars

InitTransform == TransformInit /\ CountIdle /\ ParseIdle /\ CrawlIdle /\ ReposIdle /\ RefsIdle
SpecTransform == InitTransform /\ [][TransformNext]_vars

InitRepos == ReposInit /\ CountIdle /\ ParseIdle /\ CrawlIdle /\ TransformIdle /\ RefsIdle
SpecRepos == InitRepos /\ [][ReposNext]_vars

InitRefs ==
    RefsInit /\ CountIdle /\ ParseIdle /\ CrawlIdle /\ TransformIdle /\ ReposIdle
SpecRefs == InitRefs /\ [][RefsNext]_vars

\* C3: a crawl called with maxPages = k never issues more than k page fetches, and
\* with maxPages = 1 a crawl that has ended has issued exactly one fetch.
C3_AtMostMaxPagesFetches ==
    maxPages.given =>
        /\ Len(fetched) <= maxPages.n
        /\ (maxPages.n = 1 /\ h_pc \in {"done", "error"}) => Len(fetched) = 1

\* the number of entity records of a parsed page
EntityCount(r) == Cardinality(EntityKeys(r))
\* the page's ordinal keys are 0 .. n-1
DensePage(r) == EntityKeys(r) = {NumToStr(j) : j \in 0..(EntityCount(r) - 1)}
\* S_i: the number of entity records of the pages merged before page i
RECURSIVE RecordsBefore(_)
RecordsBefore(i) == IF i <= 1 THEN 0 ELSE RecordsBefore(i - 1) + EntityCount(merged[i - 1])

\* C4: in a dependents walk over pages holding n0, n1, ... entity records (ordinal
\* keys 0 .. n_i - 1), record j of page i is in the accumulator under the key
\* S_i + j, where S_i = n0 + ... + n_(i-1), and the accumulator's entity keys are
\* 0 .. S - 1 without a gap.
C4_ShiftByCount ==
    (\A i \in 1..Len(merged) : DensePage(merged[i])) =>
        /\ \A i \in 1..Len(merged) : \A j \in 0..(EntityCount(merged[i]) - 1) :
             /\ NumToStr(RecordsBefore(i) + j) \in DOMAIN full_res
             /\ full_res[NumToStr(RecordsBefore(i) + j)] = merged[i][NumToStr(j)]
        /\ EntityKeys(full_res) = {NumToStr(j) : j \in 0..(RecordsBefore(Len(merged) + 1) - 1)}

\* C5: in a dependents walk no entity record of a merged page is overwritten by a
\* record of another page: every entity record of every merged page is still in
\* the accumulator (the records of the modelled pages are pairwise different).
C5_NoRecordOverwritten ==
    \A i \in 1..Len(merged) : \A k \in EntityKeys(merged[i]) :
        \E k2 \in EntityKeys(full_res) : full_res[k2] = merged[i][k]

\* the values of list v all occur in list w
ListWithin(v, w) == \A x \in 1..Len(v) : \E y \in 1..Len(w) : w[y] = v[x]

\* C7: the uncollected bucket of the returned payload holds the sentinel-key field
\* values of every merged page.
C7_UncollectedKeepsEveryPage ==
    h_pc = "done" =>
        \A i \in 1..Len(merged) :
            KeyIsNull \in DOMAIN merged[i] =>
                /\ "uncollected" \in DOMAIN h_ret
                /\ \A f \in DOMAIN merged[i][KeyIsNull] :
                     /\ f \in DOMAIN h_ret["uncollected"]
                     /\ ListWithin(merged[i][KeyIsNull][f], h_ret["uncollected"][f])

\* the pagination metadata of a record collection (EmptyObj when it has none)
PaginationOf(r) == IF PaginationKey \in DOMAIN r THEN r[PaginationKey] ELSE EmptyObj
HasNextLink(r) == "next" \in DOMAIN PaginationOf(r) /\ PaginationOf(r)["next"] # <<>>

\* C8: after every merge the accumulator's pagination metadata is that of the page
\* fetched last, and a payload returned after a last page without next link has no
\* next link; entity keys of earlier pages that the last page does not carry keep
\* their records.
C8_PaginationOfLastPage ==
    h_pc \in {"next", "done"} =>
        /\ PaginationOf(full_res) = PaginationOf(page_res)
        /\ (h_pc = "done" /\ ~HasNextLink(page_res)) => "next" \notin DOMAIN h_ret
        /\ \A i \in 1..Len(merged) : \A k \in EntityKeys(merged[i]) :
             (\A i2 \in (i + 1)..Len(merged) : k \notin DOMAIN merged[i2])
                 => (k \in DOMAIN full_res /\ full_res[k] = merged[i][k])

\* C9: union-by-scraped-id merge is idempotent: merging the page merged last into
\* the accumulator a second time leaves the accumulator as it is.
C9_MergeIdempotent ==
    h_pc \in {"next", "done"} => MergeIssues(full_res, page_res) = full_res

\* C9 witness: a second page has been merged into an accumulator that already held
\* one of its ids with another record.
C9_Witness ==
    /\ h_pc \in {"next", "done"} /\ Len(merged) = 2
    /\ \E k \in EntityKeys(merged[1]) \cap EntityKeys(merged[2]) : merged[1][k] # merged[2][k]
    /\ full_res = MergeIssues(merged[1], merged[2])

\* C10: when a probe of the page counter has failed, the call returns no result.
C10_FailedProbeNoResult ==
    probeFailed => (c_pc # "done" /\ c_ret = NoResult)

\* C6: every value a rule without override key files is filed under the key that
\* was current right after the start of the element the rule matched, never under
\* a key produced by an element that starts later.
C6_KeyThreading ==
    \A f \in filed : RulesOf(parser)[f.rule].override = <<>> => f.key = f.startKey

\* C1: with pageSize 100 and a stable collection of 250 items, a run of the counter
\* in which no probe failed returns total_pages = 3 and total = 250, for every
\* estimate (of at least one item, so that page 0 is never probed).
C1_Counts250 ==
    (c_pc = "done" /\ items = 250 /\ estimate >= 1 /\ ~probeFailed)
        => c_ret = [total_pages |-> 3, total |-> 250]

\* C2: with pageSize 100 and a stable collection of exactly 300 items, a run of the
\* counter in which no probe failed returns total_pages = 3 and total = 300.
C2_Counts300 ==
    (c_pc = "done" /\ items = 300 /\ estimate >= 1 /\ ~probeFailed)
        => c_ret = [total_pages |-> 3, total |-> 300]

\* the key rule of the issue listing derives no identity from the element: it has
\* no id attribute, or its id holds no digit group
NoIdentity(el) ==
    LET id == getAttribute(el, "id") IN
    id.isNull \/ DigitGroups(id.val, <<>>, <<>>) = <<>>

\* C11: in the issue listing, once a row element from which the key rule cannot
\* derive an identity has started, the parse has aborted with an error (so none of
\* the row's fields is filed under the key of another row).
C11_NoIdentityAborts ==
    parser = "issues" =>
        \A j \in 1..Len(open) :
            (SelIssueRow \in open[j].sels /\ NoIdentity(open[j])) => p_pc = "error"

\* C13: every parse call on an HTMLParser instance, also one that follows a call
\* that failed midway, starts with the current key equal to the sentinel and with
\* an empty record collection.
C13_ParseStartsClean ==
    \A i \in 1..Len(calls) : calls[i].key = InitialKey /\ calls[i].res = EmptyObj

\* C12: the transforms of a timeline page never abort it: they return, and every
\* key and every field of the parsed collection is in what they return.
C12_TransformNeverAborts ==
    t_pc = "timeline" =>
        /\ ~t_out.threw
        /\ DOMAIN t_out.res = DOMAIN t_in.val
        /\ \A k \in DOMAIN t_in.val : DOMAIN t_out.res[k] = DOMAIN t_in.val[k]

\* a link that starts with an HTTP scheme
IsHttpScheme(t) == t # <<>> /\ Head(t) \in {"http://", "https://", "https://github.com"}
\* a link made absolute
Absolute(t) == IF StartsWithSlash(t) THEN GitHub \o t ELSE t
\* the place of link x's first occurrence in the list v
FirstIndex(v, x) ==
    CHOOSE i \in 1..Len(v) : Absolute(v[i]) = x /\ \A i2 \in 1..(i - 1) : Absolute(v[i2]) # x

C17_CheckText ==
    t_pc = "check" =>
        LET g == DigitGroups(t_in.val, <<>>, <<>>) IN
        IF Len(g) = 2
          THEN t_out = [passed |-> ParseInt(g[1]), total |-> ParseInt(g[2]),
                        status |-> IF ParseInt(g[1]) = ParseInt(g[2])
                                     THEN "passed" ELSE "failed"]
          ELSE t_out = Undefined

\* C18: fieldMap(collection, name, fn) changes only the field called name: the
\* keys and the field names of the result are those of the collection, and every
\* other field of every key has the collection's value.
C18_FieldMapFrame ==
    t_pc = "fieldMap" =>
        /\ DOMAIN t_out.res = DOMAIN t_in.val
        /\ \A k \in DOMAIN t_in.val :
             /\ DOMAIN t_out.res[k] = DOMAIN t_in.val[k]
             /\ \A f \in (DOMAIN t_in.val[k]) \ {t_out.name} :
                  t_out.res[k][f] = t_in.val[k][f]

\* C18 witness: fieldMap has trimmed the author of an item that also has reactions
\* and a reactions count.
C18_Witness ==
    /\ t_pc = "fieldMap" /\ t_out.name = "author" /\ t_out.fn = "trimmed"
    /\ \E k \in DOMAIN t_in.val :
         /\ DOMAIN t_in.val[k] = {"author", "reactions", "reactionsCount"}
         /\ t_out.res[k]["author"] = <<"a">>

\* C14: the result of a concurrent listing (GitHub by since-offset, GitLab by page
\* number) holds no two records with the same id, and it is determined by the
\* pages' contents, whatever the order in which the fetches completed.
C14_NoDuplicateIds ==
    r_pc = "done" =>
        /\ \A i, j \in 1..Len(r_ret) : i # j => r_ret[i].id # r_ret[j].id
        /\ r_ret = ReposResult(r_host, [i \in 1..Len(r_pages) |-> r_pages[i].repos])

\* a collection whose pagination holds no next link
WithoutNext(r) ==
    IF PaginationKey \in DOMAIN r
      THEN [k \in DOMAIN r |->
               IF k = PaginationKey
                 THEN [f \in (DOMAIN r[k]) \ {"next"} |-> r[k][f]] ELSE r[k]]
      ELSE r
\* the crawl has stopped at the ceiling: the page merged last has a next link
CeilingReached == h_pc = "done" /\ HasNextLink(page_res)

Merged == h_pc \in {"next", "done"}
\* the page merged last names a next page and the ceiling is not reached
MayContinue == HasNextLink(page_res) /\ maxPages.given /\ pageCount < maxPages.n

C21_NoURLFetchedTwice ==
    \A i, j \in 1..Len(fetched) : i # j => fetched[i] # fetched[j]

\* C22: whenever a run of the counter in which no probe failed returns, the pair is
\* consistent with the probed server: total = (total_pages - 1) * pageSize +
\* pageLength(total_pages), and (for a collection that is not empty) total_pages is
\* the last page that is not empty.
C22_ResultSelfConsistent ==
    (c_pc = "done" /\ ~probeFailed) =>
        /\ c_ret.total = (c_ret.total_pages - 1) * PageSize
                           + ServerPageLength(items, zeroPage, c_ret.total_pages)
        /\ items > 0 =>
             /\ ServerPageLength(items, zeroPage, c_ret.total_pages) > 0
             /\ ServerPageLength(items, zeroPage, c_ret.total_pages + 1) = 0

\* C23: in phase 2 of the counter low <= high holds in every state, from the
\* initialisation of low and high to the return, for every stable collection and
\* every estimate.
C23_LowAtMostHigh ==
    (c_pc \in {"search", "done"} /\ ~probeFailed) => low <= high

\* a step of phase 1 in which a probe was answered and no probe has failed
Phase1Probe == c_pc = "grow" /\ Len(probes') = Len(probes) + 1 /\ ~probeFailed'
\* the page the step has probed and the length the server has for it
Probed == probes'[Len(probes')]
ProbedLength == ServerPageLength(items, zeroPage, Probed)

\* C24 (steps): phase 1 starts at page ceil(estimate / pageSize); after a page
\* observed full it doubles the page number and probes again, and it ends at the
\* first page observed not full.
C24_Phase1Steps ==
    [][Phase1Probe =>
         /\ Probed = estimatePageCount
         /\ probes = <<>> => Probed = MathCeilDiv(estimate, PageSize)
         /\ IF ProbedLength = PageSize
              THEN c_pc' = "grow" /\ estimatePageCount' = 2 * Probed
              ELSE c_pc' \in {"search", "done"} /\ estimatePageCount' = Probed]_vars

KeySelector(rules) == rules[CHOOSE i \in 1..Len(rules) : rules[i].kind = "key"].sel
\* the open element to which a filing belongs: the element that has just started
\* for an attribute or case rule, the innermost element the rule matched for a
\* text rule
FiledElement(rules, f) ==
    IF rules[f.rule].kind = "text" THEN open[MatchedElement(rules, f.rule, open)]
    ELSE open[Len(open)]
\* the KeyRule is registered before every field rule without override key
KeyRuleFirst(rules) ==
    \A i \in 1..Len(rules) :
        (rules[i].kind # "key" /\ rules[i].override = <<>>)
            => \E j \in 1..(i - 1) : rules[j].kind = "key"

\* C25: a field rule without override key that matches an element the KeyRule also
\* matches files its value under the key the KeyRule derived for that element, and
\* in the listing parsers the KeyRule is registered before every such field rule.
C25_KeyRuleFirst ==
    /\ KeyRuleFirst(IssuesRules) /\ KeyRuleFirst(DependentsRules)
    /\ parser # "none" =>
         \A f \in filed :
             (/\ RulesOf(parser)[f.rule].override = <<>>
              /\ KeySelector(RulesOf(parser)) \in FiledElement(RulesOf(parser), f).sels)
                 => f.key = f.startKey

\* the values the title rule has collected under the sentinel key
TitleValues(ps) ==
    IF KeyIsNull \in DOMAIN ps.res /\ "title" \in DOMAIN ps.res[KeyIsNull]
      THEN ps.res[KeyIsNull]["title"] ELSE <<>>
\* the same text nodes, each delivered in one chunk
Unsplit(nodes) == [n \in 1..Len(nodes) |-> <<Join(nodes[n])>>]

\* C26 (as stated): a text rule appends one value per last-text-node signal, equal
\* to the concatenation of the chunks delivered since the element start or the
\* previous flush, and leaves its accumulator empty; the values are the same
\* however the text nodes are split into chunks.
C26_TextValues ==
    t_pc = "text" =>
        /\ TitleValues(t_out) = [n \in 1..Len(t_in.val) |-> Join(t_in.val[n])]
        /\ \A i \in 1..Len(IssuesRules) : t_out.text[i] = <<>>
        /\ t_out.res = RunTokens(IssuesRules, NewParser(IssuesRules),
                                 TitleTokens(Unsplit(t_in.val))).res

\* C26 (amended): a text rule appends one value per last-text-node signal, equal to
\* the HTML-entity-decoded concatenation of the chunks delivered since the element
\* start or the previous flush, and leaves its accumulator empty; the values are
\* the same however the text nodes are split into chunks.
C26_TextValuesDecoded ==
    t_pc = "text" =>
        /\ TitleValues(t_out) = [n \in 1..Len(t_in.val) |-> decode(Join(t_in.val[n]))]
        /\ \A i \in 1..Len(IssuesRules) : t_out.text[i] = <<>>
        /\ t_out.res = RunTokens(IssuesRules, NewParser(IssuesRules),
                                 TitleTokens(Unsplit(t_in.val))).res

\* C26 witness: two text nodes, the first delivered as "a&l", "t;" and "b", have
\* been collected as "a<b" and "a".
C26_Witness ==
    /\ t_pc = "text"
    /\ t_in.val = << << <<"a", "&", "l">>, <<"t", ";">>, <<"b">> >>, << <<"a">> >> >>
    /\ TitleValues(t_out) = << <<"a", "<", "b">>, <<"a">> >>

\* every key of the collection has a field, and every field a value
NoEmptyEntry(r) ==
    \A k \in DOMAIN r :
        /\ DOMAIN r[k] # {}
        /\ \A f \in DOMAIN r[k] : r[k][f] # <<>>

\* C27: in every state during and after a parse, every key present in the record
\* collection has at least one field and every field present under a key holds at
\* least one value; so has the collection a parse has returned.
C27_NoEmptyEntry ==
    /\ p_pc \in {"streaming", "error", "returned"} => NoEmptyEntry(res)
    /\ p_pc = "returned" => NoEmptyEntry(p_ret)

\* C28: a run of the counter in which no probe failed never returns a negative
\* number, and for an empty collection it returns total = 0.
C28_NeverNegative ==
    (c_pc = "done" /\ ~probeFailed) =>
        /\ c_ret.total_pages >= 0
        /\ c_ret.total >= 0
        /\ items = 0 => c_ret.total = 0

\* the URL carries a dependents_after cursor; the URL is a backward link
CarriesCursor(url) == \E i \in 1..Len(url) : url[i] = "dependents_after="
Backward(url) == \E i \in 1..Len(url) : url[i] = "dependents_before="
\* of the pagination links of the n-th page, the second if there are several and
\* the only one otherwise
ChosenLink(doc, n) ==
    LinkHref(IF Len(doc.links) > 1 THEN doc.links[2] ELSE doc.links[1], n)

\* C29: parseDependents takes as next the second pagination link of a page with
\* several links and the only link otherwise, and makes next and after empty when
\* that link has no dependents_after cursor; the walk stops after such a page, every
\* fetch after the first is of a URL with a dependents_after cursor, and no
\* backward link is fetched.
C29_NextLinkChoice ==
    /\ h_pc = "first" =>
         \A doc \in DependentDocs, n \in 1..MaxPages :
             LET p == parseDependents(DependentTokens(doc, n)) IN
             ~p.threw =>
                 IF doc.links = <<>> THEN PaginationKey \notin DOMAIN p.res
                 ELSE LET pg == p.res[PaginationKey] IN
                      IF CarriesCursor(ChosenLink(doc, n))
                        THEN pg["next"] = ChosenLink(doc, n) /\ pg["after"] = <<Cursors[n + 1]>>
                        ELSE pg["next"] = <<>> /\ pg["after"] = <<>>
    /\ \A i \in 2..Len(fetched) : CarriesCursor(fetched[i]) /\ ~Backward(fetched[i])
    /\ (h_pc \in {"next", "done"} /\ ~HasNextLink(page_res))
           => (h_pc = "done" /\ Len(fetched) = pageCount)

\* C29 witness: a walk with maxPages = 2 has stopped after a first page that has
\* pagination links of which the chosen one has no cursor.
C29_Witness ==
    /\ h_pc = "done" /\ pageCount = 1 /\ maxPages.n = 2 /\ Len(fetched) = 1
    /\ PaginationKey \in DOMAIN page_res
    /\ page_res[PaginationKey]["next"] = <<>> /\ page_res[PaginationKey]["after"] = <<>>

\* C30: GetGitRefs always returns, a repository whose fetch succeeded has refs in
\* the data map whatever happened to the other fetches, and every requested URL
\* is in exactly one of the data map and the error map.
C30_FailuresIsolated ==
    g_pc = "done" =>
        /\ \A i \in 1..Len(gitUrls) :
             (gitUrls[i] \in DOMAIN g_ret.data) # (gitUrls[i] \in DOMAIN g_ret.error)
        /\ \A i \in 1..Len(results) :
             results[i].success => gitUrls[i] \in DOMAIN g_ret.data

====
